---- MODULE Spec2Model ----
(***************************************************************************)
(* Model of the maven_coordinates crate (src/src/lib.rs): the Coordinates  *)
(* struct, its parser Coordinates::new, the derived strings, to_string,    *)
(* resolve and the six setters.                                            *)
(*                                                                         *)
(* A Rust String is a sequence of one-character strings, so that split,    *)
(* rfind and concatenation are computed character by character.            *)
(* Option<String> is a record: None or Some(s).                            *)
(***************************************************************************)
EXTENDS Integers, Sequences, FiniteSets

VARIABLES toks, raw, result, coords, hist, call, ret, reparsed

vars == <<toks, raw, result, coords, hist, call, ret, reparsed>>

(***************************************************************************)
(* Bounds                                                                  *)
(***************************************************************************)
\* largest number of ':'-separated tokens in a string given to new
MaxTokens == 6
\* largest number of setter calls made on one Coordinates value
MaxSets == 2

(***************************************************************************)
(* Constants of lib.rs                                                     *)
(***************************************************************************)
MAVEN_COORDINATES_SPLITTER == ":"
MAVEN_STANDARD_PACKAGING == <<"j", "a", "r">>
FILENAME_SPLITTER == "-"
EXTENSION_SPLITTER == "."
DEFAULT_SEPARATOR == "/"

(***************************************************************************)
(* Option<String>                                                          *)
(***************************************************************************)
None == [some |-> FALSE, val |-> <<>>]
Some(s) == [some |-> TRUE, val |-> s]

(***************************************************************************)
(* str::find, str::rfind and str::split for a one-character pattern.       *)
(* find and rfind return 0 for Option::None, otherwise the 1-based index.  *)
(***************************************************************************)
Positions(s, ch) == {i \in 1..Len(s) : s[i] = ch}

find(s, ch) ==
    IF Positions(s, ch) = {} THEN 0
    ELSE CHOOSE i \in Positions(s, ch) : \A j \in Positions(s, ch) : i <= j

rfind(s, ch) ==
    IF Positions(s, ch) = {} THEN 0
    ELSE CHOOSE i \in Positions(s, ch) : \A j \in Positions(s, ch) : j <= i

RECURSIVE split(_, _)
split(s, ch) ==
    LET i == find(s, ch)
    IN  IF i = 0 THEN <<s>>
        ELSE <<SubSeq(s, 1, i - 1)>> \o split(SubSeq(s, i + 1, Len(s)), ch)

\* Iterator::next on the k-th call: the k-th part, or None when exhausted
next(parts, k) == IF k <= Len(parts) THEN Some(parts[k]) ELSE None

\* Option::unwrap_or
unwrap_or(opt, default) == IF opt.some THEN opt.val ELSE default

\* chars().last()
last(s) == IF Len(s) = 0 THEN None ELSE Some(s[Len(s)])

(***************************************************************************)
(* Coordinates::split_version: split at the last FILENAME_SPLITTER         *)
(***************************************************************************)
split_version_first(version) ==
    LET split_index == find(version, FILENAME_SPLITTER)
    IN  IF split_index # 0
        THEN <<SubSeq(version, 1, split_index - 1),
               Some(SubSeq(version, split_index + 1, Len(version)))>>
        ELSE <<version, None>>

split_version(version) ==
    LET split_index == rfind(version, FILENAME_SPLITTER)
    IN  IF split_index # 0
        THEN <<SubSeq(version, 1, split_index - 1),
               Some(SubSeq(version, split_index + 1, Len(version)))>>
        ELSE <<version, None>>

(***************************************************************************)
(* Coordinates::new.  The value is [err, c]: err is "Ok" or "InvalidInput" *)
(***************************************************************************)
NoCoordinates ==
    [group_id |-> <<>>, artifact_id |-> <<>>, version |-> <<>>,
     version_label |-> None, packaging |-> <<>>, classifier |-> None]

Err(kind) == [err |-> kind, c |-> NoCoordinates]
Ok(c) == [err |-> "Ok", c |-> c]

new_rejectEmpty(coordinates) ==
    LET parts == split(coordinates, MAVEN_COORDINATES_SPLITTER)
        group_id == next(parts, 1)
        artifact_id == next(parts, 2)
        version_part == next(parts, 3)
    IN  IF \/ ~group_id.some \/ ~artifact_id.some \/ ~version_part.some
           \/ group_id.val = <<>> \/ artifact_id.val = <<>>
           \/ version_part.val = <<>>
        THEN Err("InvalidInput")
        ELSE LET sv == split_version(version_part.val)
                 packaging == next(parts, 4)
                 classifier == next(parts, 5)
             IN  Ok([group_id |-> group_id.val,
                     artifact_id |-> artifact_id.val,
                     version |-> sv[1],
                     version_label |-> sv[2],
                     packaging |-> unwrap_or(packaging, MAVEN_STANDARD_PACKAGING),
                     classifier |-> classifier])

new_defaultOnEmpty(coordinates) ==
    LET parts == split(coordinates, MAVEN_COORDINATES_SPLITTER)
        group_id == next(parts, 1)
        artifact_id == next(parts, 2)
        version_part == next(parts, 3)
    IN  IF ~group_id.some \/ ~artifact_id.some \/ ~version_part.some
        THEN Err("InvalidInput")
        ELSE LET sv == split_version(version_part.val)
                 packaging == next(parts, 4)
                 classifier == next(parts, 5)
             IN  Ok([group_id |-> group_id.val,
                     artifact_id |-> artifact_id.val,
                     version |-> sv[1],
                     version_label |-> sv[2],
                     packaging |-> IF packaging.some /\ packaging.val # <<>>
                                   THEN packaging.val
                                   ELSE MAVEN_STANDARD_PACKAGING,
                     classifier |-> classifier])

new(coordinates) ==
    LET parts == split(coordinates, MAVEN_COORDINATES_SPLITTER)
        group_id == next(parts, 1)
        artifact_id == next(parts, 2)
        version_part == next(parts, 3)
    IN  IF ~group_id.some \/ ~artifact_id.some \/ ~version_part.some
        THEN Err("InvalidInput")
        ELSE LET sv == split_version(version_part.val)
                 packaging == next(parts, 4)
                 classifier == next(parts, 5)
             IN  Ok([group_id |-> group_id.val,
                     artifact_id |-> artifact_id.val,
                     version |-> sv[1],
                     version_label |-> sv[2],
                     packaging |-> unwrap_or(packaging, MAVEN_STANDARD_PACKAGING),
                     classifier |-> classifier])

(***************************************************************************)
(* Derived strings                                                         *)
(***************************************************************************)
full_version(c) ==
    IF c.version_label.some
    THEN c.version \o <<FILENAME_SPLITTER>> \o c.version_label.val
    ELSE c.version

file_basename_noClassifier(c) ==
    c.artifact_id \o <<FILENAME_SPLITTER>> \o full_version(c)

file_basename(c) ==
    LET file_name == c.artifact_id \o <<FILENAME_SPLITTER>> \o full_version(c)
    IN  IF c.classifier.some
        THEN file_name \o <<FILENAME_SPLITTER>> \o c.classifier.val
        ELSE file_name

file_name(c) == file_basename(c) \o <<EXTENSION_SPLITTER>> \o c.packaging

\* the loop `for directory in self.group_id.split(".")`, from the k-th part
RECURSIVE push_directories(_, _, _, _)
push_directories(path, directories, k, separator) ==
    IF k > Len(directories) THEN path
    ELSE push_directories(path \o directories[k] \o <<separator>>,
                          directories, k + 1, separator)

as_path_with_separator(c, separator) ==
    LET path0 == push_directories(<<>>, split(c.group_id, "."), 1, separator)
        path1 == path0 \o c.artifact_id \o <<separator>>
        path2 == path1 \o full_version(c) \o <<separator>>
    IN  path2 \o file_name(c)

as_path(c) == as_path_with_separator(c, DEFAULT_SEPARATOR)

resolve_emptyBase(c, maven_location) ==
    IF unwrap_or(last(maven_location), "/") # "/"
    THEN maven_location \o <<"/">> \o as_path(c)
    ELSE maven_location \o as_path(c)

resolve(c, maven_location) ==
    IF unwrap_or(last(maven_location), " ") # "/"
    THEN maven_location \o <<"/">> \o as_path(c)
    ELSE maven_location \o as_path(c)

(***************************************************************************)
(* impl ToString for Coordinates                                           *)
(***************************************************************************)
to_string_packagingOnlyIfNotStandard(c) ==
    LET string == c.group_id \o <<MAVEN_COORDINATES_SPLITTER>> \o c.artifact_id
                    \o <<MAVEN_COORDINATES_SPLITTER>> \o full_version(c)
        withPackaging ==
            IF c.packaging # MAVEN_STANDARD_PACKAGING
            THEN string \o <<MAVEN_COORDINATES_SPLITTER>> \o c.packaging
            ELSE string
    IN  IF c.classifier.some
        THEN withPackaging \o <<MAVEN_COORDINATES_SPLITTER>> \o c.classifier.val
        ELSE withPackaging

to_string_bothOrNeither(c) ==
    LET string == c.group_id \o <<MAVEN_COORDINATES_SPLITTER>> \o c.artifact_id
                    \o <<MAVEN_COORDINATES_SPLITTER>> \o full_version(c)
    IN  IF c.packaging # MAVEN_STANDARD_PACKAGING /\ c.classifier.some
        THEN string \o <<MAVEN_COORDINATES_SPLITTER>> \o c.packaging
                 \o <<MAVEN_COORDINATES_SPLITTER>> \o c.classifier.val
        ELSE string

to_string(c) ==
    LET string == c.group_id \o <<MAVEN_COORDINATES_SPLITTER>> \o c.artifact_id
                    \o <<MAVEN_COORDINATES_SPLITTER>> \o full_version(c)
    IN  IF c.packaging # MAVEN_STANDARD_PACKAGING \/ c.classifier.some
        THEN LET withPackaging ==
                     string \o <<MAVEN_COORDINATES_SPLITTER>> \o c.packaging
             IN  IF c.classifier.some
                 THEN withPackaging \o <<MAVEN_COORDINATES_SPLITTER>>
                          \o c.classifier.val
                 ELSE withPackaging
        ELSE string

(***************************************************************************)
(* Setters                                                                 *)
(***************************************************************************)
set_group_id(c, group_id) == [c EXCEPT !.group_id = group_id]

set_artifact_id(c, artifact_id) == [c EXCEPT !.artifact_id = artifact_id]

set_version_stripLabel(c, version) ==
    [c EXCEPT !.version = split_version(version)[1]]

set_version(c, version) == [c EXCEPT !.version = version]

set_version_label(c, version_qualifier) ==
    [c EXCEPT !.version_label = version_qualifier]

set_packaging(c, packaging) == [c EXCEPT !.packaging = packaging]

set_classifier_resetPackaging(c, classifier) ==
    [c EXCEPT !.classifier = classifier,
              !.packaging = MAVEN_STANDARD_PACKAGING]

set_classifier(c, classifier) == [c EXCEPT !.classifier = classifier]

(***************************************************************************)
(* Inputs.  A coordinates string is the join by ':' of one or more tokens  *)
(* that contain no ':' (the empty string is one empty token).  toks keeps  *)
(* the tokens the string given to new was built from.                      *)
(***************************************************************************)
TokenChoices(k) ==
    CASE k = 1 -> {<<>>, <<"a">>, <<"a", ".", "b">>}
      [] k = 2 -> {<<>>, <<"a">>}
      [] k = 3 -> {<<>>, <<"a">>, <<"a", "-", "b">>, <<"a", "-">>, <<"-">>,
                   <<"a", "-", "b", "-", "a">>}
      [] k = 4 -> {<<>>, <<"j", "a", "r">>, <<"b">>}
      [] k = 5 -> {<<>>, <<"b">>}
      [] OTHER -> {<<>>, <<"b">>}

RECURSIVE TokenSeqs(_)
TokenSeqs(n) ==
    IF n = 0 THEN {<<>>}
    ELSE {Append(t, x) : t \in TokenSeqs(n - 1), x \in TokenChoices(n)}

\* strings of 1..MaxTokens tokens, for the parsing specification
ParseInputs == UNION {TokenSeqs(n) : n \in 1..MaxTokens}

\* the strings the setters are exercised on
SetterInputs ==
    {<<<<"a">>, <<"a">>>>,
     <<<<"a", ".", "b">>, <<"a">>, <<"a">>>>,
     <<<<"a">>, <<"a">>, <<"a", "-", "b", "-", "a">>>>,
     <<<<"a">>, <<"a">>, <<"a", "-", "b">>, <<>>>>,
     <<<<"a", ".", "b">>, <<"a">>, <<"a">>, <<"j", "a", "r">>, <<"b">>>>}

RECURSIVE Join(_, _)
Join(tokens, ch) ==
    IF Len(tokens) = 0 THEN <<>>
    ELSE IF Len(tokens) = 1 THEN tokens[1]
    ELSE tokens[1] \o <<ch>> \o Join(Tail(tokens), ch)

GroupIdArgs == {<<"b", ".", "a">>, <<":">>}
ArtifactIdArgs == {<<"b">>}
VersionArgs == {<<"b">>, <<"a", "-", "b">>}
VersionLabelArgs == {None, Some(<<"b">>), Some(<<"-", "b">>)}
PackagingArgs == {<<>>, <<"b">>, <<"j", "a", "r">>}
ClassifierArgs == {None, Some(<<"b">>)}
Separators == {"/", "\\"}
MavenLocations == {<<>>, <<"h">>, <<"h", "/">>}

Pending == Err("pending")

(***************************************************************************)
(* Initial states: a string is chosen and nothing has been called yet.     *)
(***************************************************************************)
InitWith(inputs) ==
    /\ toks \in inputs
    /\ raw = Join(toks, MAVEN_COORDINATES_SPLITTER)
    /\ result = "pending"
    /\ coords = NoCoordinates
    /\ hist = <<>>
    /\ call = [op |-> "none", arg |-> <<>>]
    /\ ret = <<>>
    /\ reparsed = Pending

Init == InitWith(SetterInputs)

InitParse == InitWith(ParseInputs)

(***************************************************************************)
(* Calls                                                                   *)
(***************************************************************************)
\* let c = Coordinates::new(raw)
New ==
    /\ result = "pending"
    /\ result' = new(raw).err
    /\ coords' = new(raw).c
    /\ call' = [op |-> "new", arg |-> raw]
    /\ ret' = <<>>
    /\ UNCHANGED <<toks, raw, hist, reparsed>>

\* a setter call: the struct is replaced, the call is recorded
Setter(op, arg, c) ==
    /\ result = "Ok"
    /\ Len(hist) < MaxSets
    /\ coords' = c
    /\ hist' = Append(hist, [op |-> op, arg |-> arg])
    /\ call' = [op |-> op, arg |-> arg]
    /\ ret' = <<>>
    /\ UNCHANGED <<toks, raw, result, reparsed>>

SetGroupId ==
    \E v \in GroupIdArgs : Setter("set_group_id", v, set_group_id(coords, v))

SetArtifactId ==
    \E v \in ArtifactIdArgs :
        Setter("set_artifact_id", v, set_artifact_id(coords, v))

SetVersion ==
    \E v \in VersionArgs : Setter("set_version", v, set_version(coords, v))

SetVersionLabel ==
    \E v \in VersionLabelArgs :
        Setter("set_version_label", v, set_version_label(coords, v))

SetPackaging ==
    \E v \in PackagingArgs :
        Setter("set_packaging", v, set_packaging(coords, v))

SetClassifier ==
    \E v \in ClassifierArgs :
        Setter("set_classifier", v, set_classifier(coords, v))

\* a call of a &self method: only the call and its return value change
Query(op, arg, value) ==
    /\ result = "Ok"
    /\ call' = [op |-> op, arg |-> arg]
    /\ ret' = value
    /\ UNCHANGED <<toks, raw, result, coords, hist, reparsed>>

FullVersion == Query("full_version", <<>>, full_version(coords))

FileBasename == Query("file_basename", <<>>, file_basename(coords))

FileName == Query("file_name", <<>>, file_name(coords))

AsPath == Query("as_path", <<>>, as_path(coords))

AsPathWithSeparator ==
    \E sep \in Separators :
        Query("as_path_with_separator", sep, as_path_with_separator(coords, sep))

Resolve ==
    \E loc \in MavenLocations : Query("resolve", loc, resolve(coords, loc))

ToString == Query("to_string", <<>>, to_string(coords))

\* Coordinates::new(c.to_string()), on the string to_string just returned
NewFromString ==
    /\ call.op = "to_string"
    /\ reparsed = Pending
    /\ reparsed' = new(ret)
    /\ UNCHANGED <<toks, raw, result, coords, hist, call, ret>>

Next ==
    \/ New
    \/ SetGroupId
    \/ SetArtifactId
    \/ SetVersion
    \/ SetVersionLabel
    \/ SetPackaging
    \/ SetClassifier
    \/ FullVersion
    \/ FileBasename
    \/ FileName
    \/ AsPath
    \/ AsPathWithSeparator
    \/ Resolve
    \/ ToString

Spec == Init /\ [][Next]_vars

NextParse ==
    \/ New
    \/ FullVersion
    \/ ToString
    \/ NewFromString

SpecParse == InitParse /\ [][NextParse]_vars

(***************************************************************************)
(* Properties of parsing (checked under SpecParse)                         *)
(***************************************************************************)

\* C1: Coordinates::new returns Err(InvalidInput) exactly when the string
\* holds fewer than two ':' characters (fewer than 3 tokens), and Ok for
\* every other string, also when mandatory tokens are empty; no other error
\* value is produced.
C1_InvalidInputIffFewerThanThreeTokens ==
    result # "pending" =>
        /\ result \in {"Ok", "InvalidInput"}
        /\ result = "InvalidInput" <=>
               Cardinality(Positions(raw, ":")) < 2
        /\ result = "InvalidInput" <=> Len(toks) < 3

C1_Witness ==
    /\ result = "InvalidInput"
    /\ Len(toks) = 2
    /\ call.op = "new"

\* C2: for a string of n >= 3 tokens, new yields group_id = t1,
\* artifact_id = t2, version and version_label = t3 split at its last hyphen
\* (None without a hyphen, Some("") after a trailing hyphen), packaging = t4
\* when n >= 4 and "jar" only when n = 3, classifier = Some(t5) when n >= 5
\* and None otherwise; tokens after the fifth change nothing.
C2_FieldsMatchTokens ==
    (result = "Ok" /\ hist = <<>>) =>
        /\ coords.group_id = toks[1]
        /\ coords.artifact_id = toks[2]
        /\ IF Positions(toks[3], "-") = {}
           THEN /\ coords.version = toks[3]
                /\ coords.version_label = None
           ELSE /\ coords.version_label.some
                /\ coords.version \o <<"-">> \o coords.version_label.val
                       = toks[3]
                /\ Positions(coords.version_label.val, "-") = {}
        /\ coords.packaging =
               IF Len(toks) >= 4 THEN toks[4] ELSE <<"j", "a", "r">>
        /\ coords.classifier =
               IF Len(toks) >= 5 THEN Some(toks[5]) ELSE None

C2_Witness ==
    /\ result = "Ok"
    /\ Len(toks) >= 6
    /\ Cardinality(Positions(toks[3], "-")) = 2
    /\ toks[4] = <<>>
    /\ coords.packaging = <<>>
    /\ coords.classifier.some

\* C3: for every string s accepted by new, with c = new(s),
\* new(c.to_string()) succeeds and equals c in all six fields.
C3_RoundTrip ==
    reparsed # Pending =>
        /\ reparsed.err = "Ok"
        /\ reparsed.c.group_id = coords.group_id
        /\ reparsed.c.artifact_id = coords.artifact_id
        /\ reparsed.c.version = coords.version
        /\ reparsed.c.version_label = coords.version_label
        /\ reparsed.c.packaging = coords.packaging
        /\ reparsed.c.classifier = coords.classifier

C3_Witness ==
    /\ reparsed.err = "Ok"
    /\ Len(toks) = 4
    /\ toks[4] = <<"j", "a", "r">>
    /\ to_string(coords) # raw

(***************************************************************************)
(* Properties of the derived strings and the setters (checked under Spec)  *)
(***************************************************************************)

\* C4: to_string() is group_id:artifact_id:full_version() and then nothing
\* when packaging is "jar" and classifier is None, ":" packaging when
\* packaging is not "jar" and classifier is None, and
\* ":" packaging ":" classifier whenever classifier is Some, whatever the
\* packaging.
C4_ToStringEmission ==
    call.op = "to_string" =>
        LET base == coords.group_id \o <<":">> \o coords.artifact_id
                        \o <<":">> \o full_version(coords)
        IN  CASE coords.classifier.some ->
                     ret = base \o <<":">> \o coords.packaging
                               \o <<":">> \o coords.classifier.val
              [] ~coords.classifier.some
                     /\ coords.packaging = <<"j", "a", "r">> ->
                     ret = base
              [] OTHER -> ret = base \o <<":">> \o coords.packaging

C4_Witness ==
    /\ call.op = "to_string"
    /\ coords.classifier.some
    /\ coords.packaging = <<"j", "a", "r">>
    /\ hist # <<>>

\* C5 as stated: in every Coordinates value reachable by new followed by
\* setter calls, the version field contains no hyphen.
C5_VersionHasNoHyphen ==
    result = "Ok" => Positions(coords.version, "-") = {}

\* C5 amended: the version field contains a hyphen exactly when either
\* set_version has not been called and the version token given to new holds
\* two or more hyphens (new strips only the last hyphen and the label
\* behind it), or the most recent set_version call was given a string that
\* contains a hyphen (the setter stores it unchanged).
C5_VersionHyphenOrigin ==
    result = "Ok" =>
        LET sets == {i \in 1..Len(hist) : hist[i].op = "set_version"}
            latest == CHOOSE i \in sets : \A j \in sets : j <= i
        IN  Positions(coords.version, "-") # {} <=>
                IF sets = {}
                THEN Cardinality(Positions(toks[3], "-")) >= 2
                ELSE Positions(hist[latest].arg, "-") # {}

C5_Witness ==
    /\ result = "Ok"
    /\ Cardinality(Positions(toks[3], "-")) = 1
    /\ Positions(coords.version, "-") = {}
    /\ Len(hist) = 2
    /\ \A i \in 1..Len(hist) : hist[i].op # "set_version"

\* C6 as stated: in every Coordinates value reachable by new followed by
\* setter calls, the packaging field is a non-empty string.
C6_PackagingNonEmpty ==
    result = "Ok" => coords.packaging # <<>>

\* C6 amended: the packaging field is empty exactly when either
\* set_packaging has not been called and the string given to new has a
\* fourth token that is empty (only an absent fourth token is replaced by
\* "jar"), or the most recent set_packaging call was given the empty string.
C6_PackagingEmptyOrigin ==
    result = "Ok" =>
        LET sets == {i \in 1..Len(hist) : hist[i].op = "set_packaging"}
            latest == CHOOSE i \in sets : \A j \in sets : j <= i
        IN  coords.packaging = <<>> <=>
                IF sets = {}
                THEN Len(toks) >= 4 /\ toks[4] = <<>>
                ELSE hist[latest].arg = <<>>

C6_Witness ==
    /\ result = "Ok"
    /\ Len(toks) = 3
    /\ coords.packaging = <<"j", "a", "r">>
    /\ Len(hist) = 2
    /\ \A i \in 1..Len(hist) : hist[i].op # "set_packaging"

\* C7: as_path_with_separator(sep) is the '.'-separated segments of
\* group_id joined by sep, then sep artifact_id sep full_version() sep
\* file_name(), where file_name() is artifact_id "-" full_version()
\* ("-" classifier when it is Some) "." packaging; as_path() is
\* as_path_with_separator('/').
C7_PathLayout ==
    call.op \in {"as_path", "as_path_with_separator"} =>
        LET sep == IF call.op = "as_path" THEN "/" ELSE call.arg
            fullVersion == full_version(coords)
            fileName == coords.artifact_id \o <<"-">> \o fullVersion
                          \o (IF coords.classifier.some
                              THEN <<"-">> \o coords.classifier.val
                              ELSE <<>>)
                          \o <<".">> \o coords.packaging
        IN  ret = Join(split(coords.group_id, "."), sep) \o <<sep>>
                    \o coords.artifact_id \o <<sep>>
                    \o fullVersion \o <<sep>> \o fileName

C7_Witness ==
    /\ call.op = "as_path_with_separator"
    /\ call.arg = "\\"
    /\ coords.classifier.some
    /\ Len(split(coords.group_id, ".")) = 2
    /\ hist # <<>>

\* C8: for a base b that does not end with '/' (the empty base included),
\* resolve(b) equals resolve(b + "/") and both are b "/" as_path(); a base
\* that ends with '/' gets no further slash; the path part is built with
\* the separator '/'.
C8_ResolveTrailingSlash ==
    call.op = "resolve" =>
        LET b == call.arg
            path == as_path_with_separator(coords, "/")
        IN  IF Len(b) > 0 /\ b[Len(b)] = "/"
            THEN ret = b \o path
            ELSE /\ ret = b \o <<"/">> \o path
                 /\ ret = resolve(coords, b \o <<"/">>)

C8_Witness ==
    /\ call.op = "resolve"
    /\ call.arg = <<>>
    /\ ret[1] = "/"

\* C9: after any sequence of setter calls every field holds the value its
\* own setter was last given, unvalidated, or the value new parsed when its
\* setter was never called (so each setter changed its own field only), and
\* every later call of full_version, file_basename, file_name, as_path,
\* as_path_with_separator, resolve and to_string returns the string derived
\* from those current values.
C9_SettersAndDerivedViews ==
    result = "Ok" =>
        LET Current(op, parsed) ==
                LET sets == {i \in 1..Len(hist) : hist[i].op = op}
                    latest == CHOOSE i \in sets : \A j \in sets : j <= i
                IN  IF sets = {} THEN parsed ELSE hist[latest].arg
            p == new(raw).c
            cur == [group_id |-> Current("set_group_id", p.group_id),
                    artifact_id |-> Current("set_artifact_id", p.artifact_id),
                    version |-> Current("set_version", p.version),
                    version_label |->
                        Current("set_version_label", p.version_label),
                    packaging |-> Current("set_packaging", p.packaging),
                    classifier |-> Current("set_classifier", p.classifier)]
            fullVersion ==
                cur.version \o (IF cur.version_label.some
                                THEN <<"-">> \o cur.version_label.val
                                ELSE <<>>)
            baseName ==
                cur.artifact_id \o <<"-">> \o fullVersion
                    \o (IF cur.classifier.some
                        THEN <<"-">> \o cur.classifier.val
                        ELSE <<>>)
        IN  /\ coords = cur
            /\ call.op = "full_version" => ret = fullVersion
            /\ call.op = "file_basename" => ret = baseName
            /\ call.op = "file_name" =>
                   ret = baseName \o <<".">> \o cur.packaging
            /\ call.op = "as_path" => ret = as_path(cur)
            /\ call.op = "as_path_with_separator" =>
                   ret = as_path_with_separator(cur, call.arg)
            /\ call.op = "resolve" => ret = resolve(cur, call.arg)
            /\ call.op = "to_string" => ret = to_string(cur)

C9_Witness ==
    /\ result = "Ok"
    /\ Len(hist) = 2
    /\ hist[1].op = "set_version"
    /\ hist[2].op = "set_classifier"
    /\ coords.version = hist[1].arg
    /\ call.op = "file_name"

\* C10: for coordinates parsed from a label-free string g:a:V, after
\* set_version_label(Some("-" + L)), full_version() is V "-" L with a single
\* hyphen and as_path() is <group path>/a/V-L/a-V-L.jar.
C10_LabelWithLeadingHyphen ==
    ( /\ result = "Ok"
      /\ Len(toks) = 3
      /\ Positions(toks[3], "-") = {}
      /\ Len(hist) = 1
      /\ hist[1].op = "set_version_label"
      /\ hist[1].arg.some
      /\ Len(hist[1].arg.val) >= 1
      /\ hist[1].arg.val[1] = "-" ) =>
        LET fullVersion == toks[3] \o <<"-">> \o Tail(hist[1].arg.val)
        IN  /\ call.op = "full_version" => ret = fullVersion
            /\ call.op = "as_path" =>
                   ret = Join(split(toks[1], "."), "/") \o <<"/">>
                           \o toks[2] \o <<"/">> \o fullVersion \o <<"/">>
                           \o toks[2] \o <<"-">> \o fullVersion
                           \o <<".", "j", "a", "r">>

====
